---- MODULE Spec2Model ----
(***************************************************************************)
(* Model of the resume-table pipeline: read_docx.build_table ->            *)
(* extract_tables.normalize_table -> clean_table_dicts.clean_table ->      *)
(* main.process_docx_file / process_files.                                 *)
(*                                                                         *)
(* A Python str is a sequence of characters.  A character is one token:    *)
(* a printable ASCII character stands for itself, any other character is   *)
(* "Uxxxx", its code point (so "U59D3" is the character 姓, "UFF1A" the    *)
(* full-width colon, "U000A" the newline).  The empty str is <<>>.         *)
(***************************************************************************)
EXTENDS Integers, Sequences, FiniteSets, TLC

----------------------------------------------------------------------------
(* Python str primitives *)

Min(S) == CHOOSE x \in S : \A y \in S : x <= y
Max(S) == CHOOSE x \in S : \A y \in S : x >= y
Range(s) == {s[i] : i \in DOMAIN s}

\* str.isspace() for the characters of the model: space, tab, LF, CR, and
\* the ideographic space U+3000.
SpaceChars == {" ", "U0009", "U000A", "U000D", "U3000"}

\* s.strip()
strip(s) ==
  LET idx == {i \in 1..Len(s) : s[i] \notin SpaceChars}
  IN IF idx = {} THEN <<>> ELSE SubSeq(s, Min(idx), Max(idx))

\* s.lstrip(chars)
lstrip(s, chars) ==
  LET idx == {i \in 1..Len(s) : s[i] \notin chars}
  IN IF idx = {} THEN <<>> ELSE SubSeq(s, Min(idx), Len(s))

\* s.replace(" ", ""): only the ASCII space is removed
remove_spaces(s) == SelectSeq(s, LAMBDA ch : ch # " ")

\* s.replace("\n", " ")
RECURSIVE replace_newlines(_)
replace_newlines(s) ==
  IF s = <<>> THEN <<>>
  ELSE <<IF Head(s) = "U000A" THEN " " ELSE Head(s)>> \o replace_newlines(Tail(s))

\* s.startswith(k)
startswith(s, k) == Len(k) <= Len(s) /\ SubSeq(s, 1, Len(k)) = k

\* s[i:].startswith(k), i counted from 1
occurs_at(s, i, k) == i + Len(k) - 1 <= Len(s) /\ SubSeq(s, i, i + Len(k) - 1) = k

\* k in s
contains(s, k) == \E i \in 1..(Len(s) - Len(k) + 1) : occurs_at(s, i, k)

\* re.sub(r"[\r\n\s]+", " ", s): every maximal run of whitespace becomes one space
RECURSIVE sub_whitespace_from(_, _)
sub_whitespace_from(s, i) ==
  IF i > Len(s) THEN <<>>
  ELSE IF s[i] \notin SpaceChars THEN <<s[i]>> \o sub_whitespace_from(s, i + 1)
  ELSE IF i > 1 /\ s[i - 1] \in SpaceChars THEN sub_whitespace_from(s, i + 1)
  ELSE <<" ">> \o sub_whitespace_from(s, i + 1)

sub_whitespace(s) == sub_whitespace_from(s, 1)

\* "\n".join(parts)
RECURSIVE join_newline(_)
join_newline(parts) ==
  IF parts = <<>> THEN <<>>
  ELSE IF Len(parts) = 1 THEN parts[1]
  ELSE parts[1] \o <<"U000A">> \o join_newline(Tail(parts))

----------------------------------------------------------------------------
(* clean_table_dicts.py: constants *)

CHECKED_CHARS == {"U2611", "U2612", "U2713", "U2714", "U221A", "U25A0", "U25CF", "U25A3", "U25C6", "U25B2"}  \* ☑☒✓✔√■●▣◆▲
UNCHECKED_CHARS == {"U2610", "U25A1", "U25A2", "U25FB"}  \* ☐□▢◻

\* 服从调剂, 服从分配, 调剂, 分配
LABEL_KEYWORDS ==
  << <<"U670D", "U4ECE", "U8C03", "U5242">>, <<"U670D", "U4ECE", "U5206", "U914D">>,
     <<"U8C03", "U5242">>, <<"U5206", "U914D">> >>

\* The canonical field names, as keys (the keys of the cleaned record and of
\* main.COLUMNS); the comment of each FIELD_KEYWORDS line gives the name.
FUCONGFENPEI == "FuCongFenPei"   \* 服从分配

FIELD_KEYWORDS ==
  << [field |-> "XingMing", keywords |-> << <<"U59D3", "U540D">> >>],   \* 姓名: 姓名
     [field |-> "XingBie", keywords |-> << <<"U6027", "U522B">> >>],   \* 性别: 性别
     [field |-> "ChuShengNianYue", keywords |-> << <<"U51FA", "U751F", "U5E74", "U6708">>, <<"U51FA", "U751F">> >>],   \* 出生年月: 出生年月 出生
     [field |-> "ZhengZhiMianMao", keywords |-> << <<"U653F", "U6CBB", "U9762", "U8C8C">> >>],   \* 政治面貌: 政治面貌
     [field |-> "SuoZaiFenYuan", keywords |-> << <<"U6240", "U5728", "U5206", "U9662">>, <<"U5206", "U9662">> >>],   \* 所在分院: 所在分院 分院
     [field |-> "BanJi", keywords |-> << <<"U73ED", "U7EA7">> >>],   \* 班级: 班级
     [field |-> "XueHao", keywords |-> << <<"U5B66", "U53F7">> >>],   \* 学号: 学号
     [field |-> "XianCengRenZhiWu", keywords |-> << <<"U73B0", "U4EFB", "U804C", "U52A1">>, <<"U66FE", "U4EFB", "U804C">>, <<"U4EFB", "U804C">>, <<"U73B0", "U4EFB">>, <<"U66FE", "U4EFB">> >>],   \* 现（曾） 任职务: 现任职务 曾任职 任职 现任 曾任
     [field |-> "DiYiZhiYuan", keywords |-> << <<"U7B2C", "U4E00", "U5FD7", "U613F">> >>],   \* 第一志愿: 第一志愿
     [field |-> "DiErZhiYuan", keywords |-> << <<"U7B2C", "U4E8C", "U5FD7", "U613F">> >>],   \* 第二志愿: 第二志愿
     [field |-> "LianXiFangShi", keywords |-> << <<"U8054", "U7CFB", "U65B9", "U5F0F">>, <<"U8054", "U7CFB", "U7535", "U8BDD">>, <<"U624B", "U673A">>, <<"U7535", "U8BDD">>, <<"U624B", "U673A", "U53F7">> >>],   \* 联系方式: 联系方式 联系电话 手机 电话 手机号
     [field |-> "WeiXin", keywords |-> << <<"U5FAE", "U4FE1">> >>],   \* 微信: 微信
     [field |-> "HeShiHeDi", keywords |-> << <<"U4F55", "U65F6", "U4F55", "U5730", "U66FE", "U62C5", "U4EFB", "U4F55", "U804C", "U52A1">>, <<"U4F55", "U65F6", "U4F55", "U5730">> >>],   \* 何时何地曾担任何职务: 何时何地曾担任何职务 何时何地
     [field |-> "CengHuoJiangXiang", keywords |-> << <<"U66FE", "U83B7", "U5956", "U9879">>, <<"U66FE", "U83B7">>, <<"U5956", "U9879">>, <<"U83B7", "U5956">> >>],   \* 曾获奖项及获奖时间: 曾获奖项 曾获 奖项 获奖
     [field |-> "GeRenYouShi", keywords |-> << <<"U4E2A", "U4EBA", "U4F18", "U52BF">>, <<"U5DE5", "U4F5C", "U8BBE", "U60F3">>, <<"U4F18", "U52BF", "U5206", "U6790">> >>],   \* 个人优势分析及简要工作设想: 个人优势 工作设想 优势分析
     [field |-> FUCONGFENPEI, keywords |-> << <<"U670D", "U4ECE", "U5206", "U914D">>, <<"U670D", "U4ECE", "U8C03", "U5242">> >>]   \* 服从分配: 服从分配 服从调剂
  >>

FieldNames == {FIELD_KEYWORDS[f].field : f \in DOMAIN FIELD_KEYWORDS}

\* [keyword.replace(" ", "") for _, keywords in FIELD_KEYWORDS for keyword in keywords]
ALL_LABEL_KEYWORDS ==
  UNION {{remove_spaces(FIELD_KEYWORDS[f].keywords[k]) : k \in DOMAIN FIELD_KEYWORDS[f].keywords}
         : f \in DOMAIN FIELD_KEYWORDS}

LABEL_SUFFIX_CHARS == {":", "UFF1A", "-", "U2014", "_", "/", ".", ",", "(", ")", "[", "]", "UFF08", "UFF09", "U00B7", "U2022"}  \* :：-—_/.,()[]（）·•
LABEL_PREFIX_CHARS == CHECKED_CHARS \cup UNCHECKED_CHARS \cup LABEL_SUFFIX_CHARS

YES == <<"U662F">>   \* 是
NO == <<"U5426">>    \* 否

\* The literals of is_checked_text: 是 同意 接受 ✔ ☑ √ ✓ / 否 不同意 不接受
CheckedLiterals ==
  {<<"U662F">>, <<"U540C", "U610F">>, <<"U63A5", "U53D7">>, <<"U2714">>, <<"U2611">>, <<"U221A">>, <<"U2713">>}
DeclinedLiterals ==
  {<<"U5426">>, <<"U4E0D", "U540C", "U610F">>, <<"U4E0D", "U63A5", "U53D7">>}
FilledMarkers == {"U25A0", "U25CF", "U25A3", "U25C6"}   \* ■●▣◆

\* Character classes of the model's alphabet.  Every character of a keyword
\* or literal and the value characters 张 三 男 女 are CJK ideographs
\* (U+4E00..U+9FFF), for which str.isalnum() is true.
CJKChars ==
  (UNION {Range(k) : k \in ALL_LABEL_KEYWORDS \cup CheckedLiterals \cup DeclinedLiterals}
     \ CHECKED_CHARS)
  \cup {"U5F20", "U4E09", "U7537", "U5973"}
AlnumChars == CJKChars \cup {"0", "1", "2", "3", "8", "a", "b"}

----------------------------------------------------------------------------
(* clean_table_dicts.py: functions *)

\* normalize_text
normalize_text(value) ==
  IF value = <<>> THEN <<>> ELSE strip(sub_whitespace(value))

\* match_field: the first keyword, in declared order, that occurs in the
\* value once the spaces of both are removed; "" if none does
match_field(value, keywords) ==
  LET normalized == remove_spaces(value)
      hits == {k \in DOMAIN keywords : contains(normalized, remove_spaces(keywords[k]))}
  IN IF hits = {} THEN <<>> ELSE keywords[Min(hits)]

\* The first index >= i of s that holds no whitespace, Len(s) + 1 if none:
\* where a greedy \s* that starts at i stops.
skip_ws(s, i) == Min({j \in i..Len(s) : s[j] \notin SpaceChars} \cup {Len(s) + 1})

Colons == {":", "UFF1A"}   \* [:：]

\* An attempt of the pattern  keyword\s*[:：]\s*(.+)  at index i of text:
\* whether it matches, and group(1).  The second \s* is greedy and gives
\* characters back to (.+), which needs one character other than a newline
\* and runs to the end of the line.
inline_match_at(text, i, keyword) ==
  LET j == skip_ws(text, i + Len(keyword))
      m0 == skip_ws(text, j + 1)
      starts == {m \in (j + 1)..Min({m0, Len(text)}) : text[m] # "U000A"}
      m == Max(starts)
      e == Min({n \in m..Len(text) : text[n] = "U000A"} \cup {Len(text) + 1}) - 1
  IN IF /\ occurs_at(text, i, keyword)
        /\ j <= Len(text)
        /\ text[j] \in Colons
        /\ starts # {}
     THEN [found |-> TRUE, value |-> SubSeq(text, m, e)]
     ELSE [found |-> FALSE, value |-> <<>>]

\* extract_inline_value: pattern.search takes the leftmost match; the result
\* is None (found = FALSE) or group(1).strip()
extract_inline_value(text, keyword) ==
  LET hits == {i \in 1..Len(text) : inline_match_at(text, i, keyword).found}
  IN IF hits = {} THEN [found |-> FALSE, value |-> <<>>]
     ELSE [found |-> TRUE, value |-> strip(inline_match_at(text, Min(hits), keyword).value)]

\* is_checked_text
is_checked_text(text) ==
  IF text = <<>> THEN FALSE
  ELSE
    LET t == strip(text)
        is_label_text == \E k \in DOMAIN LABEL_KEYWORDS : contains(t, LABEL_KEYWORDS[k])
        glyphs == {i \in 1..Len(t) : t[i] \in CHECKED_CHARS \cup UNCHECKED_CHARS}
        non_alnum == Cardinality({i \in 1..Len(t) :
                        /\ t[i] \notin AlnumChars
                        /\ t[i] \notin SpaceChars
                        /\ t[i] \in CJKChars})
    IN IF glyphs # {} THEN t[Min(glyphs)] \in CHECKED_CHARS
       ELSE IF Len(t) <= 3 /\ t \in CheckedLiterals THEN TRUE
       ELSE IF Len(t) <= 3 /\ t \in DeclinedLiterals THEN FALSE
       ELSE IF is_label_text THEN FALSE
       ELSE IF non_alnum >= 1 /\ Len(t) <= 4 /\ Range(t) \cap FilledMarkers # {} THEN TRUE
       ELSE FALSE

\* interpret_checkbox without its test for an unchecked glyph (lines 111-112)
interpret_checkbox_no_unchecked(text) ==
  IF is_checked_text(text) THEN YES ELSE <<>>

\* interpret_checkbox
interpret_checkbox(text) ==
  IF is_checked_text(text) THEN YES
  ELSE IF Range(text) \cap UNCHECKED_CHARS # {} THEN NO
  ELSE <<>>

\* contains_label_keyword with the label exclusion left out
contains_label_keyword_off(text, allowed_keywords) == FALSE

\* contains_label_keyword; allowed_keywords = <<>> stands for None
contains_label_keyword(text, allowed_keywords) ==
  LET normalized == remove_spaces(text)
      trimmed == lstrip(normalized, LABEL_PREFIX_CHARS)
      allowed == {remove_spaces(allowed_keywords[k]) : k \in DOMAIN allowed_keywords}
  IN IF trimmed = <<>> THEN FALSE
     ELSE \E keyword \in ALL_LABEL_KEYWORDS :
            /\ keyword \notin allowed
            /\ startswith(trimmed, keyword)
            /\ Range(SubSeq(trimmed, Len(keyword) + 1, Len(trimmed))) \subseteq LABEL_SUFFIX_CHARS

\* line 148 without its guard
column_in_row_unguarded(rows, rr, c) == TRUE

\* The guard of line 148: column col_idx exists in row rr
column_in_row(rows, rr, c) == c <= Len(rows[rr])

\* infer_value_from_adjacent: the first candidate to the right in the row,
\* then below in the column, that is non-empty and no label.  raised is
\* the IndexError of rows[rr][col_idx] on a row too short.
infer_value_from_adjacent(rows, r, c, allowed_keywords) ==
  LET qualifies(cell) ==
        /\ normalize_text(cell) # <<>>
        /\ ~contains_label_keyword(normalize_text(cell), allowed_keywords)
      right == {cc \in (c + 1)..Len(rows[r]) : qualifies(rows[r][cc])}
      looked == {rr \in (r + 1)..Len(rows) : column_in_row(rows, rr, c)}
      errors == {rr \in looked : c > Len(rows[rr])}
      below == {rr \in looked \ errors : qualifies(rows[rr][c])}
  IN IF right # {} THEN [raised |-> FALSE, value |-> normalize_text(rows[r][Min(right)])]
     ELSE IF errors \cup below = {} THEN [raised |-> FALSE, value |-> <<>>]
     ELSE IF Min(errors \cup below) \in errors THEN [raised |-> TRUE, value |-> <<>>]
     ELSE [raised |-> FALSE, value |-> normalize_text(rows[Min(below)][c])]

\* x or y, on str
or_else(x, y) == IF x # <<>> THEN x ELSE y

\* field_iteration without line 173 (if cleaned[field]: continue): a later
\* cell overwrites the field
field_iteration_overwrite(rows, cleaned, r, c, f) ==
  LET field == FIELD_KEYWORDS[f].field
      keywords == FIELD_KEYWORDS[f].keywords
      text == rows[r][c]
      matched_keyword == match_field(text, keywords)
      inline == extract_inline_value(text, matched_keyword)
      adjacent == infer_value_from_adjacent(rows, r, c, keywords)
      use_inline == inline.found /\ inline.value # <<>>
      value == IF use_inline THEN inline.value ELSE adjacent.value
      own == interpret_checkbox(text)
      checkbox == infer_value_from_adjacent(rows, r, c, <<>>)
      out(kind, v) == [kind |-> kind, value |-> v]
  IN IF matched_keyword = <<>> THEN out("nomatch", <<>>)
     ELSE IF ~use_inline /\ adjacent.raised THEN out("raise", <<>>)
     ELSE IF field = FUCONGFENPEI /\ own # <<>> THEN out("write", own)
     ELSE IF field = FUCONGFENPEI /\ checkbox.raised THEN out("raise", <<>>)
     ELSE IF field = FUCONGFENPEI /\ checkbox.value # <<>>
       THEN out("write", or_else(interpret_checkbox(checkbox.value), checkbox.value))
     ELSE IF field = FUCONGFENPEI /\ value # <<>>
       THEN out("write", or_else(interpret_checkbox(value), value))
     ELSE IF value # <<>> THEN out("write", value)
     ELSE out("novalue", <<>>)

\* field_iteration with the inline value of the cell used before the
\* adjacent cell (lines 192-194 before lines 188-191)
field_iteration_inline_first(rows, cleaned, r, c, f) ==
  LET field == FIELD_KEYWORDS[f].field
      keywords == FIELD_KEYWORDS[f].keywords
      text == rows[r][c]
      matched_keyword == match_field(text, keywords)
      inline == extract_inline_value(text, matched_keyword)
      adjacent == infer_value_from_adjacent(rows, r, c, keywords)
      use_inline == inline.found /\ inline.value # <<>>
      value == IF use_inline THEN inline.value ELSE adjacent.value
      own == interpret_checkbox(text)
      checkbox == infer_value_from_adjacent(rows, r, c, <<>>)
      out(kind, v) == [kind |-> kind, value |-> v]
  IN IF cleaned[field] # <<>> THEN out("resolved", <<>>)
     ELSE IF matched_keyword = <<>> THEN out("nomatch", <<>>)
     ELSE IF ~use_inline /\ adjacent.raised THEN out("raise", <<>>)
     ELSE IF field = FUCONGFENPEI /\ own # <<>> THEN out("write", own)
     ELSE IF field = FUCONGFENPEI /\ value # <<>>
       THEN out("write", or_else(interpret_checkbox(value), value))
     ELSE IF field = FUCONGFENPEI /\ checkbox.raised THEN out("raise", <<>>)
     ELSE IF field = FUCONGFENPEI /\ checkbox.value # <<>>
       THEN out("write", or_else(interpret_checkbox(checkbox.value), checkbox.value))
     ELSE IF value # <<>> THEN out("write", value)
     ELSE out("novalue", <<>>)

\* One iteration of the loop over FIELD_KEYWORDS (lines 172-197) for the cell
\* at (r, c), text non-empty: what it does to cleaned[field].
\*   resolved: the field has a value already (continue)
\*   nomatch:  no keyword of the field is in the cell (continue)
\*   write:    cleaned[field] = value, break
\*   novalue:  the field matched and no value was found
\*   raise:    an exception leaves clean_table
field_iteration(rows, cleaned, r, c, f) ==
  LET field == FIELD_KEYWORDS[f].field
      keywords == FIELD_KEYWORDS[f].keywords
      text == rows[r][c]
      matched_keyword == match_field(text, keywords)
      inline == extract_inline_value(text, matched_keyword)
      adjacent == infer_value_from_adjacent(rows, r, c, keywords)
      use_inline == inline.found /\ inline.value # <<>>
      value == IF use_inline THEN inline.value ELSE adjacent.value
      own == interpret_checkbox(text)
      checkbox == infer_value_from_adjacent(rows, r, c, <<>>)
      out(kind, v) == [kind |-> kind, value |-> v]
  IN IF cleaned[field] # <<>> THEN out("resolved", <<>>)
     ELSE IF matched_keyword = <<>> THEN out("nomatch", <<>>)
     ELSE IF ~use_inline /\ adjacent.raised THEN out("raise", <<>>)
     ELSE IF field = FUCONGFENPEI /\ own # <<>> THEN out("write", own)
     ELSE IF field = FUCONGFENPEI /\ checkbox.raised THEN out("raise", <<>>)
     ELSE IF field = FUCONGFENPEI /\ checkbox.value # <<>>
       THEN out("write", or_else(interpret_checkbox(checkbox.value), checkbox.value))
     ELSE IF field = FUCONGFENPEI /\ value # <<>>
       THEN out("write", or_else(interpret_checkbox(value), value))
     ELSE IF value # <<>> THEN out("write", value)
     ELSE out("novalue", <<>>)

\* The cell the row-major scan visits first / after (r, c): the loops of
\* lines 168-169 pass over rows that have no cell.  <<Len(rows) + 1, 1>> is
\* the end of the scan.
first_cell_from(rows, r) ==
  LET rest == {rr \in r..Len(rows) : Len(rows[rr]) > 0}
  IN IF rest = {} THEN <<Len(rows) + 1, 1>> ELSE <<Min(rest), 1>>

next_cell(rows, r, c) ==
  IF c < Len(rows[r]) THEN <<r, c + 1>> ELSE first_cell_from(rows, r + 1)

\* cleaned = {field: "" for field, _ in FIELD_KEYWORDS}
empty_record == [field \in FieldNames |-> <<>>]

\* [[normalize_text(cell) for cell in row] for row in rows]
normalize_rows(rows) ==
  [r \in 1..Len(rows) |-> [c \in 1..Len(rows[r]) |-> normalize_text(rows[r][c])]]

\* The loop over FIELD_KEYWORDS for one cell (lines 172-197): cleaned is the
\* same for every iteration up to the first that assigns (and breaks) or
\* raises.  f = 0: no iteration does.  (x \in {e} binds x to the value of e,
\* so that e is evaluated once.)
field_loop(rows, cleaned, r, c) ==
  CHOOSE result \in
    {IF \A f \in DOMAIN outcome : outcome[f].kind \notin {"write", "raise"}
       THEN [f |-> 0, kind |-> "none", value |-> <<>>]
     ELSE LET first == Min({f \in DOMAIN outcome : outcome[f].kind \in {"write", "raise"}})
          IN [f |-> first, kind |-> outcome[first].kind, value |-> outcome[first].value]
     : outcome \in {[f \in DOMAIN FIELD_KEYWORDS |-> field_iteration(rows, cleaned, r, c, f)]}}
    : TRUE

\* clean_table as a function: the scan from the cell (r, c) on
RECURSIVE scan_from(_, _, _, _)
scan_from(rows, cleaned, r, c) ==
  IF r > Len(rows) THEN [raised |-> FALSE, cleaned |-> cleaned]
  ELSE
    CHOOSE result \in
      {IF rows[r][c] = <<>> \/ loop.kind = "none"
         THEN scan_from(rows, cleaned, nxt[1], nxt[2])
       ELSE IF loop.kind = "raise" THEN [raised |-> TRUE, cleaned |-> cleaned]
       ELSE scan_from(rows, [cleaned EXCEPT ![FIELD_KEYWORDS[loop.f].field] = loop.value],
                      nxt[1], nxt[2])
       : nxt \in {next_cell(rows, r, c)}, loop \in {field_loop(rows, cleaned, r, c)}} : TRUE

clean_table(cells) ==
  CHOOSE result \in
    {scan_from(rows, empty_record, first_cell_from(rows, 1)[1], first_cell_from(rows, 1)[2])
     : rows \in {normalize_rows(cells)}} : TRUE

----------------------------------------------------------------------------
(* State *)

VARIABLES
  table,            \* clean_table: table["cells"], the argument
  normalized_rows,  \* clean_table: normalized_rows
  cleaned,          \* clean_table: cleaned
  r_idx, c_idx,     \* clean_table: the cell the scan is at (counted from 1)
  f_idx,            \* clean_table: the entry of FIELD_KEYWORDS the scan is at
  pc,               \* clean_table: "scan", "done" (returned) or "raised"
  writer,           \* history: the cell whose iteration assigned cleaned[field]
  table_block,      \* normalize_table: table_block, as build_table made it
  norm_rows,        \* normalize_table: rows
  max_cols,         \* normalize_table: max_cols
  row_i,            \* normalize_table: the row the loop is at (counted from 1)
  norm_result,      \* normalize_table: the dict returned
  norm_pc,          \* normalize_table: "loop" or "done" (returned)
  docx_paths,       \* process_files: docx_paths, each path with its document
  path_i,           \* process_files: the path the loop is at (counted from 1)
  out_rows,         \* process_files: rows
  main_pc           \* process_files: "loop", "done" or "aborted" (an exception left it)

cleanVars == <<table, normalized_rows, cleaned, r_idx, c_idx, f_idx, pc, writer>>
normVars == <<table_block, norm_rows, max_cols, row_i, norm_result, norm_pc>>
mainVars == <<docx_paths, path_i, out_rows, main_pc>>
vars == <<cleanVars, normVars, mainVars>>

NoCell == <<0, 0>>

----------------------------------------------------------------------------
(* Inputs of clean_table *)

CleanMaxRows == 2
CleanMaxCols == 2

EMPTY == <<>>
XINGMING == <<"U59D3", "U540D">>                       \* 姓名
XINGBIE == <<"U6027", "U522B">>                        \* 性别
ZHANGSAN == <<"U5F20", "U4E09">>                       \* 张三
NAN == <<"U7537">>                                     \* 男
XINGMING_XINGBIE == <<"U59D3", "U540D", "/", "U6027", "U522B">>   \* 姓名/性别
FUCONGFENPEI_LABEL == <<"U670D", "U4ECE", "U5206", "U914D">>      \* 服从分配
FUCONGTIAOJI_COLON == <<"U670D", "U4ECE", "U8C03", "U5242", "UFF1A">>   \* 服从调剂：
CHECKED_BOX == <<"U2611">>                             \* ☑

CleanPool ==
  {EMPTY, XINGMING, XINGBIE, ZHANGSAN, XINGMING_XINGBIE, FUCONGFENPEI_LABEL,
   FUCONGTIAOJI_COLON, CHECKED_BOX}

\* The rows normalize_table produces: no trailing empty cell
RowsOver(pool, maxCols) ==
  {row \in UNION {[1..n -> pool] : n \in 0..maxCols} : row = <<>> \/ row[Len(row)] # <<>>}

TablesOver(pool, maxRows, maxCols) ==
  UNION {[1..n -> RowsOver(pool, maxCols)] : n \in 0..maxRows}

\* The rows of the adjacency examples: 姓名 张三 性别 男 / 姓名 性别 男
ExampleTables ==
  { << <<XINGMING, ZHANGSAN, XINGBIE, NAN>> >>,
    << <<XINGMING, XINGBIE, NAN>> >> }

\* Tables for the inline values: a cell "keyword, colon, 2023" for every
\* keyword of every field but 服从分配 and both colons, alone or with a
\* neighbour to the right (next to it or past an empty cell) and a row below
VALUE2023 == <<"2", "0", "2", "3">>
XUEHAO_INLINE == <<"U5B66", "U53F7", "UFF1A", "2", "0", "2", "3">>   \* 学号：2023

InlineCells ==
  UNION {{FIELD_KEYWORDS[f].keywords[k] \o <<colon>> \o VALUE2023 :
            k \in DOMAIN FIELD_KEYWORDS[f].keywords, colon \in Colons}
         : f \in {g \in DOMAIN FIELD_KEYWORDS : FIELD_KEYWORDS[g].field # FUCONGFENPEI}}
InlineTables ==
  {<< <<cell>> \o right >> \o below :
     cell \in InlineCells,
     right \in {<<>>, <<ZHANGSAN>>, <<EMPTY, ZHANGSAN>>},
     below \in {<<>>, << <<NAN>> >>, << <<XUEHAO_INLINE>> >>}}

\* Tables for the checkbox field
UNCHECKED_BOX == <<"U2610">>                    \* ☐
BUTONGYI == <<"U4E0D", "U540C", "U610F">>       \* 不同意

CheckboxPool ==
  {EMPTY, FUCONGFENPEI_LABEL, CHECKED_BOX, UNCHECKED_BOX, ZHANGSAN, XINGMING, BUTONGYI}

\* 服从分配 next to each glyph of CHECKED_CHARS and UNCHECKED_CHARS
GlyphTables ==
  {<< <<FUCONGFENPEI_LABEL, <<g>>>> >> : g \in CHECKED_CHARS \cup UNCHECKED_CHARS}

----------------------------------------------------------------------------
(* clean_table, one step per loop iteration *)

\* The functions not running
IdleClean ==
  /\ table = <<>> /\ normalized_rows = <<>> /\ cleaned = empty_record
  /\ r_idx = 1 /\ c_idx = 1 /\ f_idx = 1 /\ pc = "idle"
  /\ writer = [field \in FieldNames |-> NoCell]
IdleNorm ==
  /\ table_block = <<>> /\ norm_rows = <<>> /\ max_cols = 0 /\ row_i = 1
  /\ norm_result = <<>> /\ norm_pc = "idle"
IdleMain ==
  /\ docx_paths = <<>> /\ path_i = 1 /\ out_rows = <<>> /\ main_pc = "idle"

\* clean_table entered with a table: lines 164-166 done
CleanEntered(cells) ==
  /\ table = cells
  /\ normalized_rows = normalize_rows(table)
  /\ cleaned = empty_record
  /\ r_idx = first_cell_from(normalize_rows(table), 1)[1]
  /\ c_idx = 1
  /\ f_idx = 1
  /\ pc = "scan"
  /\ writer = [field \in FieldNames |-> NoCell]
  /\ IdleNorm /\ IdleMain

InitClean ==
  \E cells \in TablesOver(CleanPool, CleanMaxRows, CleanMaxCols) \cup ExampleTables :
    CleanEntered(cells)

InitInline == \E cells \in InlineTables : CleanEntered(cells)

InitCheckbox ==
  \E cells \in TablesOver(CheckboxPool, CleanMaxRows, CleanMaxCols) \cup GlyphTables :
    CleanEntered(cells)

AtCell == pc = "scan" /\ r_idx <= Len(normalized_rows)

GoNextCell ==
  LET nxt == next_cell(normalized_rows, r_idx, c_idx)
  IN r_idx' = nxt[1] /\ c_idx' = nxt[2] /\ f_idx' = 1

GoNextField ==
  IF f_idx < Len(FIELD_KEYWORDS)
  THEN f_idx' = f_idx + 1 /\ UNCHANGED <<r_idx, c_idx>>
  ELSE GoNextCell

\* line 170: if not text: continue
SkipEmptyCell ==
  /\ AtCell
  /\ normalized_rows[r_idx][c_idx] = <<>>
  /\ GoNextCell
  /\ UNCHANGED <<table, normalized_rows, cleaned, pc, writer, normVars, mainVars>>

\* line 173: if cleaned[field]: continue
FieldAlreadyResolved ==
  /\ AtCell
  /\ normalized_rows[r_idx][c_idx] # <<>>
  /\ field_iteration(normalized_rows, cleaned, r_idx, c_idx, f_idx).kind = "resolved"
  /\ GoNextField
  /\ UNCHANGED <<table, normalized_rows, cleaned, pc, writer, normVars, mainVars>>

\* line 176: if not matched_keyword: continue
FieldNotMatched ==
  /\ AtCell
  /\ normalized_rows[r_idx][c_idx] # <<>>
  /\ field_iteration(normalized_rows, cleaned, r_idx, c_idx, f_idx).kind = "nomatch"
  /\ GoNextField
  /\ UNCHANGED <<table, normalized_rows, cleaned, pc, writer, normVars, mainVars>>

\* FieldMatched without the break of line 197: after an assignment the loop
\* over the fields goes on with the same cell
FieldMatched_no_break ==
  /\ AtCell
  /\ normalized_rows[r_idx][c_idx] # <<>>
  /\ LET it == field_iteration(normalized_rows, cleaned, r_idx, c_idx, f_idx)
         field == FIELD_KEYWORDS[f_idx].field
     IN /\ it.kind \in {"write", "novalue", "raise"}
        /\ IF it.kind = "raise"
           THEN pc' = "raised" /\ UNCHANGED <<cleaned, writer, r_idx, c_idx, f_idx>>
           ELSE IF it.kind = "write"
           THEN /\ cleaned' = [cleaned EXCEPT ![field] = it.value]
                /\ writer' = [writer EXCEPT ![field] = <<r_idx, c_idx>>]
                /\ GoNextField
                /\ UNCHANGED pc
           ELSE GoNextField /\ UNCHANGED <<cleaned, writer, pc>>
  /\ UNCHANGED <<table, normalized_rows, normVars, mainVars>>

\* lines 178-197: the field matched; a value found is assigned and the loop
\* over the fields is left (break), no value goes on with the next field, an
\* exception leaves clean_table
FieldMatched ==
  /\ AtCell
  /\ normalized_rows[r_idx][c_idx] # <<>>
  /\ LET it == field_iteration(normalized_rows, cleaned, r_idx, c_idx, f_idx)
         field == FIELD_KEYWORDS[f_idx].field
     IN /\ it.kind \in {"write", "novalue", "raise"}
        /\ IF it.kind = "raise"
           THEN pc' = "raised" /\ UNCHANGED <<cleaned, writer, r_idx, c_idx, f_idx>>
           ELSE IF it.kind = "write"
           THEN /\ cleaned' = [cleaned EXCEPT ![field] = it.value]
                /\ writer' = [writer EXCEPT ![field] = <<r_idx, c_idx>>]
                /\ GoNextCell
                /\ UNCHANGED pc
           ELSE GoNextField /\ UNCHANGED <<cleaned, writer, pc>>
  /\ UNCHANGED <<table, normalized_rows, normVars, mainVars>>

\* line 198: return cleaned
Return ==
  /\ pc = "scan"
  /\ r_idx > Len(normalized_rows)
  /\ pc' = "done"
  /\ UNCHANGED <<table, normalized_rows, cleaned, r_idx, c_idx, f_idx, writer, normVars, mainVars>>

NextClean ==
  \/ SkipEmptyCell
  \/ FieldAlreadyResolved
  \/ FieldNotMatched
  \/ FieldMatched
  \/ Return

SpecClean == InitClean /\ [][NextClean]_vars

SpecInline == InitInline /\ [][NextClean]_vars

SpecCheckbox == InitCheckbox /\ [][NextClean]_vars

\* The step-wise scan and the function agree
CleanAgrees ==
  pc = "done" => clean_table(table) = [raised |-> FALSE, cleaned |-> cleaned]

----------------------------------------------------------------------------
(* Vocabulary of the properties of clean_table *)

FieldIndex(field) == CHOOSE f \in DOMAIN FIELD_KEYWORDS : FIELD_KEYWORDS[f].field = field
KeywordsOf(field) == FIELD_KEYWORDS[FieldIndex(field)].keywords

\* The cells of the table, and the row-major order on them
Cells == {<<r, c>> : r \in 1..CleanMaxRows + 1, c \in 1..CleanMaxCols + 2}
           \cap {p \in (1..Len(normalized_rows)) \X (1..CleanMaxCols + 2) :
                   p[2] <= Len(normalized_rows[p[1]])}
Before(p, q) == p[1] < q[1] \/ (p[1] = q[1] /\ p[2] < q[2])
First(S) == CHOOSE p \in S : \A q \in S : p = q \/ Before(p, q)
TextAt(p) == normalized_rows[p[1]][p[2]]

\* The cell holds a keyword variant of the field
Matches(field, p) == TextAt(p) # <<>> /\ match_field(TextAt(p), KeywordsOf(field)) # <<>>

\* The value the cell gives the field when the field is still unresolved
\* there (its inline value, otherwise by adjacent-cell inference; by the
\* checkbox rules for 服从分配); "" if it gives none
Derived(field, p) ==
  field_iteration(normalized_rows, empty_record, p[1], p[2], FieldIndex(field)).value

\* The cell assigned a field that precedes this one in FIELD_KEYWORDS, so the
\* loop over the fields was left before it came to this field
ClaimedBefore(field, p) ==
  \E g \in FieldNames : FieldIndex(g) < FieldIndex(field) /\ writer[g] = p

\* The cells that can resolve the field
Resolving(field) ==
  {p \in Cells : Matches(field, p) /\ Derived(field, p) # <<>> /\ ~ClaimedBefore(field, p)}

----------------------------------------------------------------------------
(* C1 *)

\* C1 as stated: of two cells that both hold a keyword variant of a field,
\* the one visited first in row-major order gives the field its value.
C1_FirstMatchingCellWins ==
  pc = "done" =>
    \A field \in FieldNames : \A p1, p2 \in Cells :
      (Before(p1, p2) /\ Matches(field, p1) /\ Matches(field, p2))
        => cleaned[field] = Derived(field, p1)

\* C1 (amended): the value of a field is the value derived from the first
\* cell, in row-major order, that holds a keyword variant of the field, yields
\* a non-empty value for it and was not used for a field earlier in
\* FIELD_KEYWORDS; no later cell changes it; with no such cell it is "".
C1_FirstResolvingCellWins ==
  pc = "done" =>
    \A field \in FieldNames :
      IF Resolving(field) = {}
      THEN cleaned[field] = <<>> /\ writer[field] = NoCell
      ELSE /\ writer[field] = First(Resolving(field))
           /\ cleaned[field] = Derived(field, First(Resolving(field)))

\* Two cells can both resolve a field, to different values, and the first did
C1_Witness ==
  /\ pc = "done"
  /\ \E field \in FieldNames : \E p1, p2 \in Resolving(field) :
       /\ Before(p1, p2)
       /\ Derived(field, p1) # Derived(field, p2)
       /\ cleaned[field] = Derived(field, p1)

----------------------------------------------------------------------------
(* C2 *)

\* The cells adjacent-cell inference looks at from p, in its order: to the
\* right in the row, then below in the column
RECURSIVE ColumnBelow(_, _)
ColumnBelow(r, c) ==
  IF r > Len(normalized_rows) THEN <<>>
  ELSE (IF c <= Len(normalized_rows[r]) THEN << <<r, c>> >> ELSE <<>>) \o ColumnBelow(r + 1, c)

Candidates(p) ==
  [i \in 1..(Len(normalized_rows[p[1]]) - p[2]) |-> <<p[1], p[2] + i>>]
    \o ColumnBelow(p[1] + 1, p[2])

\* The text, once its spaces and its leading glyph and punctuation characters
\* are removed, is a keyword of the field followed by punctuation only
BareLabelOf(text, field) ==
  LET t == lstrip(remove_spaces(text), LABEL_PREFIX_CHARS)
  IN \E k \in DOMAIN KeywordsOf(field) :
       LET kw == KeywordsOf(field)[k]
       IN /\ startswith(t, kw)
          /\ \A i \in (Len(kw) + 1)..Len(t) : t[i] \in LABEL_SUFFIX_CHARS

BareLabelOfOther(text, field) ==
  \E g \in FieldNames \ {field} : BareLabelOf(text, g)
BareLabelOfAny(text) == \E g \in FieldNames : BareLabelOf(text, g)

\* The candidates of p that are non-empty and no bare label of another field
\* / of any field, by their place in Candidates(p)
NotOtherLabel(field, p) ==
  {i \in DOMAIN Candidates(p) :
     TextAt(Candidates(p)[i]) # <<>> /\ ~BareLabelOfOther(TextAt(Candidates(p)[i]), field)}
NotAnyLabel(p) ==
  {i \in DOMAIN Candidates(p) :
     TextAt(Candidates(p)[i]) # <<>> /\ ~BareLabelOfAny(TextAt(Candidates(p)[i]))}

HasInline(field, p) ==
  LET kw == match_field(TextAt(p), KeywordsOf(field))
  IN kw # <<>> /\ extract_inline_value(TextAt(p), kw).value # <<>>

\* The field was resolved, at the cell writer[field], by adjacent-cell
\* inference: not by an inline value nor, for 服从分配, by a glyph of the
\* cell itself
ByAdjacency(field) ==
  /\ writer[field] # NoCell
  /\ IF field = FUCONGFENPEI
     THEN /\ interpret_checkbox(TextAt(writer[field])) = <<>>
          /\ (NotAnyLabel(writer[field]) # {} \/ ~HasInline(field, writer[field]))
     ELSE ~HasInline(field, writer[field])

\* What a field gets from the cell chosen: its text, for 服从分配 read as a
\* checkbox first
FromChosen(field, text) ==
  IF field = FUCONGFENPEI THEN or_else(interpret_checkbox(text), text) ELSE text

Example4 == << <<XINGMING, ZHANGSAN, XINGBIE, NAN>> >>
Example3 == << <<XINGMING, XINGBIE, NAN>> >>

C2_Examples ==
  /\ (pc = "done" /\ table = Example4)
       => cleaned["XingMing"] = ZHANGSAN /\ cleaned["XingBie"] = NAN
  /\ (pc = "done" /\ table = Example3) => cleaned["XingMing"] # XINGBIE

\* C2 as stated: a field resolved by adjacent-cell inference has the value
\* of the first non-empty candidate (right in the row, then down in the
\* column) that is no bare label of another field.
C2_FirstNonOtherLabelCandidate ==
  pc = "done" =>
    /\ \A field \in FieldNames :
         ByAdjacency(field) =>
           /\ NotOtherLabel(field, writer[field]) # {}
           /\ cleaned[field] =
                FromChosen(field, TextAt(Candidates(writer[field])[Min(NotOtherLabel(field, writer[field]))]))
    /\ C2_Examples

\* C2 (amended): a field resolved by adjacent-cell inference has the value of
\* the first non-empty candidate that is no bare label of another field; for
\* 服从分配 a bare label of 服从分配 itself is passed over too, and is taken
\* only when no candidate is free of labels.  The value is never a bare
\* label of another field.
C2_AdjacencyExclusion ==
  pc = "done" =>
    /\ \A field \in FieldNames :
         ByAdjacency(field) =>
           LET p == writer[field]
               pick == IF field = FUCONGFENPEI /\ NotAnyLabel(p) # {}
                       THEN NotAnyLabel(p) ELSE NotOtherLabel(field, p)
           IN /\ pick # {}
              /\ cleaned[field] = FromChosen(field, TextAt(Candidates(p)[Min(pick)]))
              /\ ~BareLabelOfOther(TextAt(Candidates(p)[Min(pick)]), field)
    /\ C2_Examples

\* A field was resolved by inference past a candidate that is the bare label
\* of another field
C2_Witness ==
  /\ pc = "done"
  /\ \E field \in FieldNames :
       /\ ByAdjacency(field)
       /\ NotOtherLabel(field, writer[field]) # {}
       /\ \E i \in 1..(Min(NotOtherLabel(field, writer[field])) - 1) :
            BareLabelOfOther(TextAt(Candidates(writer[field])[i]), field)
       /\ cleaned[field] =
            FromChosen(field, TextAt(Candidates(writer[field])[Min(NotOtherLabel(field, writer[field]))]))

----------------------------------------------------------------------------
(* C5 *)

\* C5: clean_table returns for every normalized table, the empty one and
\* those with rows of different lengths included, without raising; the keys
\* of the record are the 16 canonical field names; a field that no cell
\* resolves is ""; for cells = [] every field is "".
C5_TotalRecord ==
  /\ pc # "raised"
  /\ (pc = "scan" /\ r_idx <= Len(normalized_rows)) =>
       /\ c_idx \in DOMAIN normalized_rows[r_idx]
       /\ f_idx \in DOMAIN FIELD_KEYWORDS
  /\ pc = "done" =>
       /\ DOMAIN cleaned = FieldNames
       /\ Cardinality(DOMAIN cleaned) = 16
       /\ \A field \in FieldNames :
            (writer[field] = NoCell \/ \A p \in Cells : ~Matches(field, p))
              => cleaned[field] = <<>>
       /\ table = <<>> => \A field \in FieldNames : cleaned[field] = <<>>

\* The scan ended on a table in which the inference from a label looked down
\* a column that a shorter row below does not have
C5_Witness ==
  /\ pc = "done"
  /\ \E field \in FieldNames : \E p \in Cells :
       /\ Matches(field, p)
       /\ p[2] = Len(normalized_rows[p[1]])
       /\ \E rr \in (p[1] + 1)..Len(normalized_rows) : Len(normalized_rows[rr]) < p[2]

----------------------------------------------------------------------------
(* C10 *)

\* C10: a field that has a value keeps it in every later step of the scan
\* (each field is written at most once); a step writes at most one field and
\* then goes to the next cell; no cell writes two fields.
C10_OneFieldPerCell ==
  \A f, g \in FieldNames : (f # g /\ writer[f] = writer[g]) => writer[f] = NoCell

C10_WriteOnceStep ==
  /\ \A field \in FieldNames : cleaned[field] # <<>> => cleaned'[field] = cleaned[field]
  /\ Cardinality({field \in FieldNames : cleaned'[field] # cleaned[field]}) <= 1
  /\ cleaned' # cleaned =>
       /\ <<r_idx', c_idx'>> = next_cell(normalized_rows, r_idx, c_idx)
       /\ f_idx' = 1
  /\ ~Before(<<r_idx', c_idx'>>, <<r_idx, c_idx>>)
  /\ C10_OneFieldPerCell'

C10_WriteOnce == [][C10_WriteOnceStep]_vars

\* The scan is at a cell that holds a keyword of a field resolved before
C10_Witness ==
  /\ AtCell
  /\ TextAt(<<r_idx, c_idx>>) # <<>>
  /\ cleaned[FIELD_KEYWORDS[f_idx].field] # <<>>
  /\ match_field(TextAt(<<r_idx, c_idx>>), FIELD_KEYWORDS[f_idx].keywords) # <<>>
  /\ writer[FIELD_KEYWORDS[f_idx].field] # <<r_idx, c_idx>>

----------------------------------------------------------------------------
(* C3 *)

\* The text is the keyword, a colon and a value that is not blank and holds
\* no colon and no keyword
InlineTail(text, kw) == SubSeq(text, Len(kw) + 2, Len(text))
InlineForm(text, kw) ==
  /\ startswith(text, kw)
  /\ Len(text) > Len(kw) + 1
  /\ text[Len(kw) + 1] \in Colons
  /\ strip(InlineTail(text, kw)) # <<>>
  /\ Range(InlineTail(text, kw)) \cap Colons = {}
  /\ \A any \in ALL_LABEL_KEYWORDS : ~contains(InlineTail(text, kw), any)

\* C3: a field other than 服从分配 that is resolved from a cell "k, colon, v",
\* k any keyword variant declared for the field, has the value v (trimmed),
\* whatever the cells to the right of and below the cell hold.
C3_InlineExtraction ==
  pc = "done" =>
    \A field \in FieldNames \ {FUCONGFENPEI} : \A k \in DOMAIN KeywordsOf(field) :
      (writer[field] # NoCell /\ InlineForm(TextAt(writer[field]), KeywordsOf(field)[k]))
        => cleaned[field] = strip(InlineTail(TextAt(writer[field]), KeywordsOf(field)[k]))

\* The same for every keyword variant that holds no earlier variant of its
\* field (all but 手机号, which holds 手机)
C3_UnshadowedKeywords ==
  pc = "done" =>
    \A field \in FieldNames \ {FUCONGFENPEI} : \A k \in DOMAIN KeywordsOf(field) :
      (/\ \A j \in 1..(k - 1) : ~contains(KeywordsOf(field)[k], KeywordsOf(field)[j])
       /\ \E p \in Cells : InlineForm(TextAt(p), KeywordsOf(field)[k]))
        => /\ writer[field] # NoCell
           /\ InlineForm(TextAt(writer[field]), KeywordsOf(field)[k])
           /\ cleaned[field] = strip(InlineTail(TextAt(writer[field]), KeywordsOf(field)[k]))

----------------------------------------------------------------------------
(* C4 *)

Glyphs == CHECKED_CHARS \cup UNCHECKED_CHARS

\* 服从分配 was resolved at a label cell that holds no glyph, by the first
\* qualifying adjacent cell (the first non-empty candidate that is no label)
DecidedByAdjacentCell ==
  /\ writer[FUCONGFENPEI] # NoCell
  /\ Matches(FUCONGFENPEI, writer[FUCONGFENPEI])
  /\ Range(TextAt(writer[FUCONGFENPEI])) \cap Glyphs = {}
  /\ NotAnyLabel(writer[FUCONGFENPEI]) # {}

DecidingText ==
  TextAt(Candidates(writer[FUCONGFENPEI])[Min(NotAnyLabel(writer[FUCONGFENPEI]))])

C4_GlyphCases ==
  /\ (Len(DecidingText) = 1 /\ DecidingText[1] \in CHECKED_CHARS)
       => cleaned[FUCONGFENPEI] = YES
  /\ (Len(DecidingText) = 1 /\ DecidingText[1] \in UNCHECKED_CHARS)
       => cleaned[FUCONGFENPEI] = NO

NoGlyphNoLiteral(text) ==
  Range(text) \cap Glyphs = {} /\ text \notin CheckedLiterals \cup DeclinedLiterals

\* C4 as stated: the deciding cell holding only a checked glyph gives 是, only
\* an unchecked glyph gives 否, no glyph and no recognised literal gives "".
C4_CheckboxRoundTrip ==
  (pc = "done" /\ DecidedByAdjacentCell) =>
    /\ C4_GlyphCases
    /\ NoGlyphNoLiteral(DecidingText) => cleaned[FUCONGFENPEI] = <<>>

\* C4 (amended): only a checked glyph gives 是, only an unchecked glyph gives
\* 否; a deciding cell with no glyph that is no recognised literal gives its
\* own text.
C4_CheckboxOrRawText ==
  (pc = "done" /\ DecidedByAdjacentCell) =>
    /\ C4_GlyphCases
    /\ NoGlyphNoLiteral(DecidingText) => cleaned[FUCONGFENPEI] = DecidingText

\* 服从分配 got the text of a deciding cell with no glyph and no literal
C4_Witness ==
  /\ pc = "done"
  /\ DecidedByAdjacentCell
  /\ NoGlyphNoLiteral(DecidingText)
  /\ cleaned[FUCONGFENPEI] = DecidingText

\* 服从分配 got 否 from a deciding cell that holds only an unchecked glyph
C4_WitnessUnchecked ==
  /\ pc = "done"
  /\ DecidedByAdjacentCell
  /\ Len(DecidingText) = 1 /\ DecidingText[1] \in UNCHECKED_CHARS
  /\ cleaned[FUCONGFENPEI] = NO
----------------------------------------------------------------------------
(* read_docx.py build_table and extract_tables.py normalize_table *)

\* A w:tbl element is a sequence of w:tr rows, a row a sequence of w:tc cells,
\* a cell the sequence of the texts build_paragraph gives for its w:p children.

NonEmptyTexts(paragraphs) == SelectSeq(paragraphs, LAMBDA text : text # <<>>)

\* read_docx.build_table
build_table(tbl) ==
  LET cell_of(tc) == [paragraphs |-> tc, text |-> strip(join_newline(NonEmptyTexts(tc)))]
      rows == [i \in 1..Len(tbl) |-> [j \in 1..Len(tbl[i]) |-> cell_of(tbl[i][j])]]
  IN [type |-> "table",
      row_count |-> Len(rows),
      column_count |-> Max({0} \cup {Len(rows[i]) : i \in 1..Len(rows)}),
      rows |-> rows]

\* extract_tables.normalized_cell_text
normalized_cell_text(cell) ==
  LET text == IF cell.text # <<>> THEN cell.text
              ELSE join_newline(NonEmptyTexts(cell.paragraphs))
  IN strip(replace_newlines(text))

\* Every empty cell removed, wherever it is (not the program's trimming)
trim_trailing_empty_all(cells) == SelectSeq(cells, LAMBDA text : text # <<>>)

\* extract_tables.trim_trailing_empty
RECURSIVE trim_trailing_empty(_)
trim_trailing_empty(cells) ==
  IF cells # <<>> /\ cells[Len(cells)] = <<>>
  THEN trim_trailing_empty(SubSeq(cells, 1, Len(cells) - 1))
  ELSE cells

\* normalize_table, lines 35-36: one row of the loop
normalize_row(row) ==
  trim_trailing_empty([j \in 1..Len(row) |-> normalized_cell_text(row[j])])

\* extract_tables.normalize_table, as a function
normalize_table(block) ==
  LET rows == [i \in 1..Len(block.rows) |-> normalize_row(block.rows[i])]
  IN [row_count |-> Len(rows),
      column_count |-> Max({0} \cup {Len(rows[i]) : i \in 1..Len(rows)}),
      cells |-> rows]

NormMaxRows == 2
NormMaxCols == 2

TC_NONE == <<>>                                  \* a cell with no paragraph
TC_BLANK == << <<" ">> >>                        \* a paragraph that is one space
TC_XINGMING == << XINGMING >>                    \* 姓名
TC_ZHANGSAN == << ZHANGSAN >>                    \* 张三
TC_TWO == << <<"U5F20">>, <<"U4E09">> >>         \* two paragraphs: 张 and 三

NormPool == {TC_NONE, TC_XINGMING, TC_TWO}

ExampleTbls ==
  { << <<TC_XINGMING, TC_ZHANGSAN, TC_NONE, TC_NONE>> >>,
    << <<TC_XINGMING, TC_NONE, TC_ZHANGSAN, TC_NONE>> >>,
    << <<TC_XINGMING, TC_BLANK, TC_ZHANGSAN, TC_BLANK>>, <<TC_BLANK>> >>,
    << <<TC_BLANK, TC_TWO, TC_NONE>>, <<TC_XINGMING, TC_ZHANGSAN, TC_NONE, TC_NONE>> >> }

\* A w:tr may end with empty cells: the rows are not trimmed yet
AllRowsOver(pool, maxCols) ==
  UNION {[1..n -> pool] : n \in 0..maxCols}
Tbls ==
  UNION {[1..n -> AllRowsOver(NormPool, NormMaxCols)] : n \in 0..NormMaxRows}
    \cup ExampleTbls

\* normalize_table entered with the block build_table made: lines 32-33 done
InitNorm ==
  /\ \E tbl \in Tbls : table_block = build_table(tbl)
  /\ norm_rows = <<>> /\ max_cols = 0 /\ row_i = 1
  /\ norm_result = <<>> /\ norm_pc = "loop"
  /\ IdleClean /\ IdleMain

\* lines 34-38: one iteration of the loop over the rows
NormalizeRow ==
  /\ norm_pc = "loop" /\ row_i <= Len(table_block.rows)
  /\ LET normalized_row == normalize_row(table_block.rows[row_i])
     IN /\ norm_rows' = Append(norm_rows, normalized_row)
        /\ max_cols' = Max({max_cols, Len(normalized_row)})
  /\ row_i' = row_i + 1
  /\ UNCHANGED <<table_block, norm_result, norm_pc, cleanVars, mainVars>>

\* lines 39-43
NormalizeReturn ==
  /\ norm_pc = "loop" /\ row_i > Len(table_block.rows)
  /\ norm_result' = [row_count |-> Len(norm_rows), column_count |-> max_cols,
                     cells |-> norm_rows]
  /\ norm_pc' = "done"
  /\ UNCHANGED <<table_block, norm_rows, max_cols, row_i, cleanVars, mainVars>>

NextNorm ==
  \/ NormalizeRow
  \/ NormalizeReturn

SpecNorm == InitNorm /\ [][NextNorm]_vars

\* The loop computes the function
NormAgrees == norm_pc = "done" => norm_result = normalize_table(table_block)

----------------------------------------------------------------------------
(* C6 *)

\* The row lengths the Reader reports: before trimming
UntrimmedMax == Max({0} \cup {Len(table_block.rows[i]) : i \in 1..Len(table_block.rows)})
TrimmedMax == Max({0} \cup {Len(norm_result.cells[i]) : i \in 1..Len(norm_result.cells)})

\* C6: the column_count normalize_table returns is the greatest length of the
\* table's rows before trailing-empty trimming, the column_count of the Reader.
C6_ColumnCountUntrimmed ==
  norm_pc = "done" =>
    /\ norm_result.column_count = UntrimmedMax
    /\ norm_result.column_count = table_block.column_count

\* What the loop computes: the greatest length of the trimmed rows
C6_ColumnCountTrimmed ==
  norm_pc = "done" => norm_result.column_count = TrimmedMax

----------------------------------------------------------------------------
(* C7 *)

CellTexts(i) ==
  [j \in 1..Len(table_block.rows[i]) |-> normalized_cell_text(table_block.rows[i][j])]

\* C7: every output row is the input row's normalized cell texts without
\* their maximal suffix of empty cells: the cells kept are at their column,
\* the cells dropped are empty, and the last cell kept is not empty.
C7_TrailingEmptyTrimming ==
  /\ Len(norm_rows) = row_i - 1
  /\ \A i \in 1..Len(norm_rows) :
       /\ Len(norm_rows[i]) <= Len(CellTexts(i))
       /\ \A j \in 1..Len(norm_rows[i]) : norm_rows[i][j] = CellTexts(i)[j]
       /\ \A j \in (Len(norm_rows[i]) + 1)..Len(CellTexts(i)) : CellTexts(i)[j] = <<>>
       /\ norm_rows[i] # <<>> => norm_rows[i][Len(norm_rows[i])] # <<>>
       /\ CellTexts(i) = <<XINGMING, ZHANGSAN, <<>>, <<>>>>
            => norm_rows[i] = <<XINGMING, ZHANGSAN>>
       /\ CellTexts(i) = <<XINGMING, <<>>, ZHANGSAN, <<>>>>
            => norm_rows[i] = <<XINGMING, <<>>, ZHANGSAN>>
  /\ norm_pc = "done" =>
       /\ norm_result.cells = norm_rows
       /\ Len(norm_result.cells) = Len(table_block.rows)

\* A returned row that lost trailing empty cells and kept an interior one
C7_Witness ==
  /\ norm_pc = "done"
  /\ \E i \in 1..Len(norm_result.cells) :
       /\ Len(norm_result.cells[i]) < Len(table_block.rows[i])
       /\ \E j \in 1..Len(norm_result.cells[i]) : norm_result.cells[i][j] = <<>>

----------------------------------------------------------------------------
(* main.py: process_docx_file and the loop of process_files *)

\* A discovered document: its path (directories, then the file name), whether
\* its archive can be opened and parsed, its w:body (NoBody if the markup has
\* none) as the sequence of the body's children, and the stage in which an
\* exception of the environment (MemoryError, ...) breaks in, if any.
NoBody == "NoBody"
P(text) == [tag |-> "p", text |-> text, rows |-> <<>>]
TBL(rows) == [tag |-> "tbl", text |-> <<>>, rows |-> rows]
SECTPR == [tag |-> "sectPr", text |-> <<>>, rows |-> <<>>]

\* os.path.basename
basename(path) == path[Len(path)]

\* main.COLUMNS: 文件名 and the sixteen field names
WENJIANMING == "WenJianMing"   \* 文件名
COLUMNS == {WENJIANMING} \cup FieldNames

\* read_docx.build_paragraph, the text only
build_paragraph(child) == [type |-> "paragraph", text |-> child.text]

\* read_docx.read_blocks: w:p and w:tbl children in order, the rest left out
read_blocks(body) ==
  LET kept == SelectSeq(body, LAMBDA child : child.tag \in {"p", "tbl"})
  IN [i \in 1..Len(kept) |->
        IF kept[i].tag = "p" THEN build_paragraph(kept[i]) ELSE build_table(kept[i].rows)]

\* read_docx.extract_structure with load_document_xml: raises for an archive
\* that cannot be read and for a document without w:body
extract_structure(doc) ==
  IF ~doc.readable \/ doc.body = NoBody
  THEN [raised |-> TRUE, blocks |-> <<>>]
  ELSE [raised |-> FALSE, blocks |-> read_blocks(doc.body)]

\* extract_tables.extract_tables
extract_tables(structure) ==
  LET blocks == SelectSeq(structure.blocks, LAMBDA block : block.type = "table")
  IN [i \in 1..Len(blocks) |-> normalize_table(blocks[i])]

\* clean_table_dicts.clean_tables
clean_tables(tables) ==
  CHOOSE result \in
    {[raised |-> \E i \in DOMAIN each : each[i].raised,
      cleaned |-> [i \in DOMAIN each |-> each[i].cleaned]]
     : each \in {[i \in 1..Len(tables) |-> clean_table(tables[i].cells)]}} : TRUE
empty_row(filename) == [col \in COLUMNS |-> IF col = WENJIANMING THEN filename ELSE <<>>]

\* lines 102-104
fill_from(result, entry) ==
  [col \in COLUMNS |->
     IF col \in DOMAIN entry /\ entry[col] # <<>> THEN entry[col] ELSE result[col]]

RECURSIVE fill_from_all(_, _)
fill_from_all(result, entries) ==
  IF entries = <<>> THEN result
  ELSE fill_from_all(fill_from(result, Head(entries)), Tail(entries))

\* lines 96-104, the body of the try: raised if a stage raises
try_block(doc, result) ==
  CHOOSE out \in
    {IF structure.raised \/ doc.fault = "extract_tables"
       THEN [raised |-> TRUE, result |-> result]
     ELSE CHOOSE inner \in
            {IF doc.fault = "clean_tables" \/ entries.raised
               THEN [raised |-> TRUE, result |-> result]
             ELSE IF entries.cleaned # <<>>
               THEN [raised |-> FALSE, result |-> fill_from(result, entries.cleaned[1])]
             ELSE [raised |-> FALSE, result |-> result]
             : entries \in {clean_tables(extract_tables(structure))}} : TRUE
     : structure \in {extract_structure(doc)}} : TRUE

\* The row filled from every table of the document (not the program's)
process_docx_file_merge(doc) ==
  CHOOSE out \in
    {IF got.raised THEN got.result
     ELSE fill_from_all(got.result, clean_tables(extract_tables(extract_structure(doc))).cleaned)
     : got \in {try_block(doc, empty_row(basename(doc.path)))}} : TRUE

\* main.process_docx_file: what the try raises is caught, lines 105-108
process_docx_file(doc) == try_block(doc, empty_row(basename(doc.path))).result

MaxDocs == 3

TBL_ZHANGSAN == << <<TC_XINGMING, TC_ZHANGSAN>> >>          \* 姓名 | 张三
TBL_NAN == << << <<XINGBIE>>, <<NAN>> >> >>                 \* 性别 | 男
TBL_OTHER == << << <<XINGMING>>, <<NAN>>, TC_NONE >>,
                << <<XINGBIE>>, <<NAN>> >> >>               \* 姓名 | 男 | / 性别 | 男

Doc(name, readable, body, fault) ==
  [path |-> <<"input", name>>, readable |-> readable, body |-> body, fault |-> fault]

Documents ==
  { Doc("a.docx", TRUE, <<P(ZHANGSAN), TBL(TBL_ZHANGSAN), SECTPR>>, "none"),
    Doc("b.docx", TRUE, <<TBL(TBL_ZHANGSAN), P(EMPTY), TBL(TBL_OTHER)>>, "none"),
    Doc("c.docx", TRUE, <<TBL(TBL_NAN), TBL(TBL_ZHANGSAN)>>, "none"),
    Doc("d.docx", TRUE, <<TBL(<<>>), TBL(TBL_ZHANGSAN)>>, "none"),
    Doc("e.docx", TRUE, <<P(ZHANGSAN)>>, "none"),
    Doc("f.docx", FALSE, <<TBL(TBL_ZHANGSAN)>>, "none"),
    Doc("g.docx", TRUE, NoBody, "none"),
    Doc("h.docx", TRUE, <<TBL(TBL_ZHANGSAN)>>, "extract_tables"),
    Doc("i.docx", TRUE, <<TBL(TBL_ZHANGSAN)>>, "clean_tables") }

\* process_files at line 191: the documents discovered, rows = []
InitMain ==
  /\ docx_paths \in UNION {[1..n -> Documents] : n \in 0..MaxDocs}
  /\ path_i = 1 /\ out_rows = <<>> /\ main_pc = "loop"
  /\ IdleClean /\ IdleNorm

\* lines 191-193
NoDocuments ==
  /\ main_pc = "loop" /\ docx_paths = <<>>
  /\ main_pc' = "returned"
  /\ UNCHANGED <<docx_paths, path_i, out_rows, cleanVars, normVars>>

\* The loop body with no handler at all: what a stage raises ends the loop
ProcessDocument_unguarded ==
  /\ main_pc = "loop" /\ path_i <= Len(docx_paths)
  /\ \E got \in {try_block(docx_paths[path_i], empty_row(basename(docx_paths[path_i].path)))} :
       IF got.raised
       THEN main_pc' = "aborted" /\ UNCHANGED <<path_i, out_rows>>
       ELSE /\ out_rows' = Append(out_rows, got.result)
            /\ path_i' = path_i + 1
            /\ UNCHANGED main_pc
  /\ UNCHANGED <<docx_paths, cleanVars, normVars>>

\* lines 197-214: one iteration of the loop.  process_docx_file catches what
\* its stages raise, so the handler of lines 206-214 is never entered
ProcessDocument ==
  /\ main_pc = "loop" /\ path_i <= Len(docx_paths)
  /\ \E fname \in {basename(docx_paths[path_i].path)},
        row \in {process_docx_file(docx_paths[path_i])} :
       out_rows' = Append(out_rows, IF DOMAIN row = {} THEN empty_row(fname) ELSE row)
  /\ path_i' = path_i + 1
  /\ UNCHANGED <<docx_paths, main_pc, cleanVars, normVars>>

\* lines 216-217: the rows are written
WriteWorkbook ==
  /\ main_pc = "loop" /\ docx_paths # <<>> /\ path_i > Len(docx_paths)
  /\ main_pc' = "done"
  /\ UNCHANGED <<docx_paths, path_i, out_rows, cleanVars, normVars>>

NextMain ==
  \/ NoDocuments
  \/ ProcessDocument
  \/ WriteWorkbook

SpecMain == InitMain /\ [][NextMain]_vars

----------------------------------------------------------------------------
(* C8 *)

Fails(doc) == ~doc.readable \/ doc.body = NoBody \/ doc.fault # "none"

\* C8: the rows are one per document processed, in discovery order, each with
\* its document's file name; the row of a failing document has every other
\* column empty; the loop goes on to the end of the list, and a row appended
\* is never changed or dropped.
C8_State ==
  /\ main_pc \in {"loop", "returned", "done"}
  /\ Len(out_rows) = path_i - 1
  /\ \A i \in 1..Len(out_rows) :
       /\ DOMAIN out_rows[i] = COLUMNS
       /\ out_rows[i][WENJIANMING] = docx_paths[i].path[Len(docx_paths[i].path)]
       /\ Fails(docx_paths[i]) => \A field \in FieldNames : out_rows[i][field] = <<>>
  /\ main_pc \in {"returned", "done"} => Len(out_rows) = Len(docx_paths)

C8_Step ==
  /\ C8_State'
  /\ Len(out_rows') >= Len(out_rows)
  /\ SubSeq(out_rows', 1, Len(out_rows)) = out_rows

C8_ErrorIsolation == [][C8_Step]_vars

\* All rows written, a failing document followed by one whose row has a name
C8_Witness ==
  /\ main_pc = "done"
  /\ \E i \in 1..(Len(out_rows) - 1) :
       /\ Fails(docx_paths[i])
       /\ \A field \in FieldNames : out_rows[i][field] = <<>>
       /\ ~Fails(docx_paths[i + 1])
       /\ out_rows[i + 1]["XingMing"] = ZHANGSAN

----------------------------------------------------------------------------
(* C9 *)

\* The w:tbl children of the body, in document order
TblsOf(doc) == SelectSeq(doc.body, LAMBDA child : child.tag = "tbl")
CleanedOf(child) == clean_table(normalize_table(build_table(child.rows)).cells).cleaned

\* C9: the row of a document that has tables takes each field from the
\* cleaned record of the document's first table, and from no other table.
C9_FirstTableOnly ==
  \A i \in 1..Len(out_rows) :
    (~Fails(docx_paths[i]) /\ TblsOf(docx_paths[i]) # <<>>) =>
       [field \in FieldNames |-> out_rows[i][field]] = CleanedOf(TblsOf(docx_paths[i])[1])

\* A row with an empty field for which a later table of the document has a value
C9_Witness ==
  \E i \in 1..Len(out_rows) :
    /\ ~Fails(docx_paths[i])
    /\ Len(TblsOf(docx_paths[i])) >= 2
    /\ LET second == CleanedOf(TblsOf(docx_paths[i])[2])
       IN \E field \in FieldNames : out_rows[i][field] = <<>> /\ second[field] # <<>>

----------------------------------------------------------------------------
(* C11 *)

\* Label cells of 服从分配 with a glyph, with an inline value, with both
FUCONG_CHECKED == FUCONGFENPEI_LABEL \o <<"U2611">>                 \* 服从分配☑
FUCONG_INLINE == FUCONGFENPEI_LABEL \o <<"UFF1A">> \o ZHANGSAN       \* 服从分配：张三
FUCONG_INLINE_UNCHECKED == FUCONGFENPEI_LABEL \o <<":", "U2610">>   \* 服从分配:☐
FUCONG_MIXED == FUCONGFENPEI_LABEL \o <<"U2610", "U2611">>          \* 服从分配☐☑

OrderPool ==
  {EMPTY, FUCONGFENPEI_LABEL, FUCONG_CHECKED, FUCONG_INLINE, FUCONG_INLINE_UNCHECKED,
   CHECKED_BOX, ZHANGSAN, XINGMING}

OrderExamples ==
  { << <<FUCONG_MIXED, ZHANGSAN>> >>,
    << <<FUCONG_INLINE, XINGMING, FUCONGFENPEI_LABEL>>, <<UNCHECKED_BOX>> >>,
    << <<FUCONG_INLINE, XINGMING>>, <<FUCONGFENPEI_LABEL>> >> }

InitOrder ==
  \E cells \in TablesOver(OrderPool, CleanMaxRows, CleanMaxCols) \cup OrderExamples :
    CleanEntered(cells)

SpecOrder == InitOrder /\ [][NextClean]_vars

\* The glyphs of the cell, by their place in its text
OwnGlyphs(p) == {i \in 1..Len(TextAt(p)) : TextAt(p)[i] \in Glyphs}

\* The inline value of the label cell of 服从分配: the text after the
\* matched keyword and a colon ("" if there is none)
InlineOf(p) ==
  extract_inline_value(TextAt(p), match_field(TextAt(p), KeywordsOf(FUCONGFENPEI))).value

\* A text read as a checkbox, or else the text itself
AsCheckbox(text) == or_else(interpret_checkbox(text), text)

\* (a) a glyph in the label cell decides (the first, if there are several);
\* (b) otherwise the first non-empty adjacent cell that is no label does
C11_GlyphThenAdjacent ==
  LET p == writer[FUCONGFENPEI]
  IN /\ OwnGlyphs(p) # {} =>
          cleaned[FUCONGFENPEI] =
            IF TextAt(p)[Min(OwnGlyphs(p))] \in CHECKED_CHARS THEN YES ELSE NO
     /\ (OwnGlyphs(p) = {} /\ NotAnyLabel(p) # {}) =>
          cleaned[FUCONGFENPEI] = AsCheckbox(TextAt(Candidates(p)[Min(NotAnyLabel(p))]))

\* C11 as stated: 服从分配 is resolved (a) by a glyph of the label cell,
\* (b) otherwise by the first qualifying adjacent cell, read as a checkbox
\* or else as its text, (c) and only otherwise by a value, which is the
\* inline value of the label cell, read the same way.
C11_ResolutionOrder ==
  (pc = "done" /\ writer[FUCONGFENPEI] # NoCell) =>
    /\ C11_GlyphThenAdjacent
    /\ (OwnGlyphs(writer[FUCONGFENPEI]) = {} /\ NotAnyLabel(writer[FUCONGFENPEI]) = {}) =>
         /\ InlineOf(writer[FUCONGFENPEI]) # <<>>
         /\ cleaned[FUCONGFENPEI] = AsCheckbox(InlineOf(writer[FUCONGFENPEI]))

\* C11 (amended): (a) and (b) as stated; (c) otherwise the value is the
\* inline value of the label cell or, if it has none, the first non-empty
\* adjacent cell that is no label of another field (a bare label of 服从分配
\* itself), read as a checkbox or else as its text.
C11_ResolutionOrderWithOwnLabel ==
  (pc = "done" /\ writer[FUCONGFENPEI] # NoCell) =>
    /\ C11_GlyphThenAdjacent
    /\ (OwnGlyphs(writer[FUCONGFENPEI]) = {} /\ NotAnyLabel(writer[FUCONGFENPEI]) = {}) =>
         LET p == writer[FUCONGFENPEI]
         IN IF InlineOf(p) # <<>>
            THEN cleaned[FUCONGFENPEI] = AsCheckbox(InlineOf(p))
            ELSE /\ NotOtherLabel(FUCONGFENPEI, p) # {}
                 /\ BareLabelOf(TextAt(Candidates(p)[Min(NotOtherLabel(FUCONGFENPEI, p))]),
                                FUCONGFENPEI)
                 /\ cleaned[FUCONGFENPEI] =
                      AsCheckbox(TextAt(Candidates(p)[Min(NotOtherLabel(FUCONGFENPEI, p))]))

\* 服从分配 has the inline value of a label cell whose only adjacent cells
\* are labels
C11_Witness ==
  /\ pc = "done" /\ writer[FUCONGFENPEI] # NoCell
  /\ OwnGlyphs(writer[FUCONGFENPEI]) = {}
  /\ NotAnyLabel(writer[FUCONGFENPEI]) = {}
  /\ Candidates(writer[FUCONGFENPEI]) # <<>>
  /\ InlineOf(writer[FUCONGFENPEI]) # <<>>
  /\ cleaned[FUCONGFENPEI] = InlineOf(writer[FUCONGFENPEI])

\* 服从分配 decided by an adjacent cell although the label cell has an
\* inline value
C11_WitnessAdjacentOverInline ==
  /\ pc = "done" /\ writer[FUCONGFENPEI] # NoCell
  /\ OwnGlyphs(writer[FUCONGFENPEI]) = {}
  /\ NotAnyLabel(writer[FUCONGFENPEI]) # {}
  /\ InlineOf(writer[FUCONGFENPEI]) # <<>>
  /\ cleaned[FUCONGFENPEI] # AsCheckbox(InlineOf(writer[FUCONGFENPEI]))

\* 服从分配 decided by a glyph of the label cell although an adjacent cell
\* qualifies
C11_WitnessOwnGlyph ==
  /\ pc = "done" /\ writer[FUCONGFENPEI] # NoCell
  /\ OwnGlyphs(writer[FUCONGFENPEI]) # {}
  /\ NotAnyLabel(writer[FUCONGFENPEI]) # {}
  /\ cleaned[FUCONGFENPEI] = NO

----------------------------------------------------------------------------
(* C12 *)

SHI == <<"U662F">>                              \* 是
TONGYI == <<"U540C", "U610F">>                  \* 同意
JIESHOU == <<"U63A5", "U53D7">>                 \* 接受
FOU == <<"U5426">>                              \* 否
BUJIESHOU == <<"U4E0D", "U63A5", "U53D7">>      \* 不接受

AcceptLiterals == {SHI, TONGYI, JIESHOU}
DeclineLiterals == {FOU, BUTONGYI, BUJIESHOU}

\* 服从分配 with each literal to its right, below it, and as its inline value
LiteralTables ==
  UNION {{ << <<FUCONGFENPEI_LABEL, literal>> >>,
           << <<FUCONGFENPEI_LABEL>>, <<literal>> >>,
           << <<FUCONGFENPEI_LABEL, EMPTY, literal>> >>,
           << <<FUCONGFENPEI_LABEL, XINGMING>>, <<EMPTY, ZHANGSAN>>, <<literal>> >>,
           << <<FUCONGFENPEI_LABEL \o <<"UFF1A">> \o literal>> >>,
           << <<FUCONGFENPEI_LABEL \o <<":", " ">> \o literal, XINGMING>>, <<FUCONGFENPEI_LABEL>> >> }
         : literal \in AcceptLiterals \cup DeclineLiterals}

InitLiteral == \E cells \in LiteralTables : CleanEntered(cells)

SpecLiteral == InitLiteral /\ [][NextClean]_vars

\* 服从分配 was resolved at a label cell without a glyph, by the first
\* qualifying adjacent cell or, with none, by the inline value of the cell
DecidedByText ==
  /\ pc = "done" /\ writer[FUCONGFENPEI] # NoCell
  /\ OwnGlyphs(writer[FUCONGFENPEI]) = {}
  /\ (NotAnyLabel(writer[FUCONGFENPEI]) # {} \/ InlineOf(writer[FUCONGFENPEI]) # <<>>)

Decider ==
  IF NotAnyLabel(writer[FUCONGFENPEI]) # {}
  THEN TextAt(Candidates(writer[FUCONGFENPEI])[Min(NotAnyLabel(writer[FUCONGFENPEI]))])
  ELSE InlineOf(writer[FUCONGFENPEI])

\* C12: when the text that decides 服从分配 is one of 是, 同意, 接受 the
\* record has 是, and when it is one of 否, 不同意, 不接受 the record has 否.
C12_LiteralInterpretation ==
  DecidedByText =>
    /\ Decider \in AcceptLiterals => cleaned[FUCONGFENPEI] = YES
    /\ Decider \in DeclineLiterals => cleaned[FUCONGFENPEI] = NO

\* What the scan records: 是 for 是, 同意, 接受; the literal itself for 否,
\* 不同意, 不接受
C12_DeclineKeptAsText ==
  DecidedByText =>
    /\ Decider \in AcceptLiterals => cleaned[FUCONGFENPEI] = YES
    /\ Decider \in DeclineLiterals => cleaned[FUCONGFENPEI] = Decider

====
